---- MODULE Spec2Model ----
(***************************************************************************)
(* State-machine model of the webgpu-chat worker (src/unnamed/part_000):   *)
(* the message listener, load(), generate(), the static promise cache of  *)
(* TextGenerationPipeline and the InterruptableStoppingCriteria flag.      *)
(*                                                                         *)
(* The worker is one JavaScript event loop.  A macrotask (a message from   *)
(* the host, a loader event, an engine event) runs only when the microtask *)
(* queue mq is empty; the continuation of an `await` is a microtask.       *)
(* The tokenizer/model loader and the decoding engine are external: the    *)
(* loader reports initiate, progress, done per artifact and then resolves  *)
(* (or rejects at any time); the engine polls stopping_criteria at every   *)
(* step boundary, then decodes one fragment and hands it to the streamer   *)
(* (or throws), up to max_new_tokens fragments.                            *)
(*                                                                         *)
(* The host (src/src/App.tsx) is the React component that owns the worker: *)
(* its state, its user-interface handlers, the effect that posts generate  *)
(* and its handler of the worker's messages.  Host and worker exchange     *)
(* messages over two first-in first-out queues.  The specifications of the *)
(* worker alone leave the host idle and the queues empty.                  *)
(***************************************************************************)
EXTENDS Integers, Sequences, FiniteSets, TLC

\* ----------------------------------------------------------------- bounds
\* commands the listener handles in one run
MaxCmds == 3
\* stands for max_new_tokens (512 in the source): fragments per generation
MaxNewTokens == 2
\* performance.now() takes the values 0..MaxNow
MaxNow == 2
\* commands of a run that exercises the resource pool (at most MaxCmds)
MaxLoadCmds == 2
\* generate commands of a run that exercises the streamer (at most MaxCmds)
MaxGens == 2

Cmds == 1..MaxCmds

\* ---------------------------------------------------------------- configs
\* Config {modelName, dtype, device}: a base value and one value differing
\* from it in each single field.
BaseConfig == [modelName |-> "M1", dtype |-> "q4f16", device |-> "webgpu"]

Configs ==
  { BaseConfig,
    [BaseConfig EXCEPT !.modelName = "M2"],
    [BaseConfig EXCEPT !.dtype = "fp16"],
    [BaseConfig EXCEPT !.device = "wasm"] }

NoConfig == [modelName |-> "", dtype |-> "", device |-> ""]

\* ------------------------------------------------------------------ state
VARIABLES
  interrupted,   \* stopping_criteria.interrupted
  model_id,      \* TextGenerationPipeline.model_id
  tokenizer,     \* TextGenerationPipeline.tokenizer (a promise, or null)
  model,         \* TextGenerationPipeline.model (a promise, or null)
  ncmd,          \* number of messages the listener has handled
  task,          \* per command: the async call it started and its locals
  mq,            \* microtask queue: commands whose await can continue
  now,           \* performance.now()
  posted,        \* per command: the messages its code posted
                 \* (self.postMessage), in order
  app,           \* the state of the App component (its useState values)
  inbox,         \* commands the host posted that the listener has not
                 \* handled yet
  outbox         \* messages the worker posted that onMessageReceived has
                 \* not handled yet

workerVars ==
  <<interrupted, model_id, tokenizer, model, ncmd, task, mq, now, posted>>

hostVars == <<app, inbox, outbox>>

vars == <<interrupted, model_id, tokenizer, model, ncmd, task, mq, now, posted,
          app, inbox, outbox>>

\* A promise of the cache.  st: "null" (never assigned), "pending",
\* "resolved", "rejected".  id/dtype/device: the arguments from_pretrained
\* was called with.  cb: the command whose progress_callback was passed
\* (0: undefined).  stage: progress events the loader has produced so far.
\* n: which from_pretrained call of this static field made it (1 = first);
\* two promises are the same object only if n agrees.
NullPromise ==
  [st |-> "null", id |-> "", dtype |-> "", device |-> "", cb |-> 0,
   stage |-> 0, n |-> 0]

\* The locals of one async call.  kind "none": not yet received.
NoTask ==
  [ kind |-> "none", pc |-> "none", config |-> NoConfig,
    res |-> <<>>,          \* [tokenizer, model] the await returned
    numTokens |-> 0,       \* let numTokens = 0
    startTime |-> <<>>,    \* let startTime (<<>>: undefined)
    emitted |-> 0,         \* fragments the engine has decoded
    acq |-> "none",        \* history: state of the promise getInstance
                           \*   returned, at the time it returned
    hit |-> FALSE,         \* history: both cached promises had resolved
                           \*   when getInstance was called
    intr |-> "no",         \* history: "pending" an interrupt was handled
                           \*   while this call decodes; "cleared" the flag
                           \*   was reset before the loop polled it; "seen"
                           \*   the loop polled it and stopped
    at |-> "none",         \* history: pc when that interrupt was handled
    n0 |-> 0,              \* history: numTokens when it was handled
    early |-> "no" ]       \* history: "pending" an interrupt was handled
                           \*   while this generate call awaited the pair;
                           \*   "cleared" the flag was reset afterwards

\* tps as a message carries it: undefined, Infinity or a number
TpsUndefined == [kind |-> "undefined", val |-> 0]
TpsInfinity == [kind |-> "Infinity", val |-> 0]
TpsNumber(v) == [kind |-> "number", val |-> v]

\* the useState initial values of App
InitApp ==
  [ status |-> "", isRunning |-> FALSE, input |-> "", messages |-> <<>>,
    tps |-> TpsNumber(0), numTokens |-> 0, error |-> "",
    config |-> BaseConfig ]     \* modelName, dtype, device

Init ==
  /\ app = InitApp
  /\ inbox = <<>>
  /\ outbox = <<>>
  /\ interrupted = FALSE
  /\ model_id = ""
  /\ tokenizer = NullPromise
  /\ model = NullPromise
  /\ ncmd = 0
  /\ task = [c \in Cmds |-> NoTask]
  /\ mq = <<>>
  /\ now = 0
  /\ posted = [c \in Cmds |-> <<>>]

\* ----------------------------------------------------------------- events
\* One self.postMessage.  cmd names the async call whose code posted it.
Ev(status, c, arg, tps, n) ==
  [status |-> status, cmd |-> c, arg |-> arg, tps |-> tps, numTokens |-> n]

\* self.postMessage(x) for each x of evs, from the code of command c
Post(c, evs) == posted' = [posted EXCEPT ![c] = @ \o evs]

ProgressStatus == <<"initiate", "progress", "done">>
NumStages == Len(ProgressStatus)

\* ------------------------------------------ InterruptableStoppingCriteria
\* mutant: interrupt() assigns false
interruptClear == interrupted' = FALSE

\* mutant: interrupt() flips the flag
interruptToggle == interrupted' = ~interrupted

\* interrupt(): this.interrupted = true
interrupt == interrupted' = TRUE

\* mutant: reset() flips the flag
resetToggle == interrupted' = ~interrupted

\* mutant: reset() leaves the flag as it is
resetKeep == interrupted' = interrupted

\* reset(): this.interrupted = false
reset == interrupted' = FALSE

\* mutant: the criteria never ask to stop
_callNever(rows) == [i \in 1..rows |-> FALSE]

\* _call(input_ids, _): new Array(input_ids.length).fill(this.interrupted)
_call(rows) == [i \in 1..rows |-> interrupted]

\* the engine decodes one sequence; it stops when every row says stop
BatchRows == 1
EngineMustStop == \A i \in 1..BatchRows : _call(BatchRows)[i]

\* ------------------------------------------------- TextGenerationPipeline
\* AutoTokenizer.from_pretrained / AutoModelForCausalLM.from_pretrained:
\* a new pending promise
FromPretrained(id, dtype, device, cb, n) ==
  [st |-> "pending", id |-> id, dtype |-> dtype, device |-> device,
   cb |-> cb, stage |-> 0, n |-> n]

\* mutant: plain assignment, x = y
AlwaysAssign(cur, new) == new

\* mutant: a settled promise is replaced, only a pending one is kept
AssignUnlessPending(cur, new) == IF cur.st = "pending" THEN cur ELSE new

\* x ??= y
NullishAssign(cur, new) == IF cur.st = "null" THEN new ELSE cur

\* Promise.all([this.tokenizer, this.model])
PromiseAll(t, m) ==
  IF t.st = "rejected" \/ m.st = "rejected" THEN "rejected"
  ELSE IF t.st = "resolved" /\ m.st = "resolved" THEN "resolved"
  ELSE "pending"

\* the synchronous part of getInstance(config, progress_callback)
getInstance(config, cb) ==
  /\ model_id' = config.modelName
  /\ tokenizer' = NullishAssign(tokenizer,
                     FromPretrained(config.modelName, "", "", cb,
                                    tokenizer.n + 1))
  /\ model' = NullishAssign(model,
                 FromPretrained(config.modelName, config.dtype,
                                config.device, cb, model.n + 1))

\* ----------------------------------------------------------- event loop
Decoding(c) == task[c].pc \in {"enginePoll", "engineStep"}

\* the calls suspended at `await TextGenerationPipeline.getInstance(...)`
Awaiting == { c \in Cmds : task[c].pc = "awaitInstance" }

RECURSIVE InOrder(_)
InOrder(S) ==
  IF S = {} THEN <<>>
  ELSE LET c == CHOOSE x \in S : \A y \in S : x <= y
       IN <<c>> \o InOrder(S \ {c})

\* a macrotask starts only when no microtask is left
MacroTask == mq = <<>>

Receive == MacroTask /\ ncmd < MaxCmds

\* history: a reset of the flag drops the pending interrupt of a decoding
\* or awaiting call
ClearPending(t) ==
  [c \in Cmds |->
     [t[c] EXCEPT
        !.intr = IF @ = "pending" THEN "cleared" ELSE @,
        !.early = IF @ = "pending" THEN "cleared" ELSE @]]

\* history: interrupt() is handled while these calls decode, or await the
\* pair
MarkPending(t) ==
  [c \in Cmds |-> IF Decoding(c) /\ t[c].intr # "pending"
                  THEN [t[c] EXCEPT !.intr = "pending", !.at = t[c].pc,
                                    !.n0 = t[c].numTokens]
                  ELSE IF t[c].kind = "generate" /\ t[c].pc = "awaitInstance"
                  THEN [t[c] EXCEPT !.early = "pending"]
                  ELSE t[c]]

\* ------------------------------------------------------ message listener
\* case "load": load(config) up to its first await
HandleLoad(config) ==
  /\ Receive
  /\ LET c == ncmd + 1 IN
       /\ ncmd' = c
       /\ Post(c, <<Ev("loading", c, <<"Loading model", config>>,
                         TpsUndefined, 0)>>)
       /\ getInstance(config, c)
       /\ task' = [task EXCEPT ![c] =
                     [NoTask EXCEPT !.kind = "load", !.pc = "awaitInstance",
                                    !.config = config,
                                    !.hit = PromiseAll(tokenizer, model)
                                              = "resolved",
                                    !.acq = PromiseAll(tokenizer', model')]]
       /\ mq' = IF PromiseAll(tokenizer', model') # "pending"
                THEN <<c>> ELSE <<>>
  /\ UNCHANGED <<interrupted, now>>

\* case "generate": stopping_criteria.reset(); generate(data, config) up to
\* its first await
HandleGenerate(config) ==
  /\ Receive
  /\ LET c == ncmd + 1 IN
       /\ ncmd' = c
       /\ reset
       /\ getInstance(config, 0)
       /\ task' = [ClearPending(task) EXCEPT ![c] =
                     [NoTask EXCEPT !.kind = "generate",
                                    !.pc = "awaitInstance",
                                    !.config = config,
                                    !.hit = PromiseAll(tokenizer, model)
                                              = "resolved",
                                    !.acq = PromiseAll(tokenizer', model')]]
       /\ mq' = IF PromiseAll(tokenizer', model') # "pending"
                THEN <<c>> ELSE <<>>
  /\ UNCHANGED <<now, posted>>

\* case "interrupt": stopping_criteria.interrupt()
HandleInterrupt ==
  /\ Receive
  /\ LET c == ncmd + 1 IN
       /\ ncmd' = c
       /\ interrupt
       /\ task' = [MarkPending(task) EXCEPT ![c] =
                     [NoTask EXCEPT !.kind = "interrupt", !.pc = "handled"]]
  /\ UNCHANGED <<model_id, tokenizer, model, mq, now, posted>>

\* case "reset": stopping_criteria.reset()
HandleReset ==
  /\ Receive
  /\ LET c == ncmd + 1 IN
       /\ ncmd' = c
       /\ reset
       /\ task' = [ClearPending(task) EXCEPT ![c] =
                     [NoTask EXCEPT !.kind = "reset", !.pc = "handled"]]
  /\ UNCHANGED <<model_id, tokenizer, model, mq, now, posted>>

\* any other type: the switch has no default branch and nothing throws, so
\* the catch clause posts nothing
HandleOther ==
  /\ Receive
  /\ LET c == ncmd + 1 IN
       /\ ncmd' = c
       /\ task' = [task EXCEPT ![c] =
                     [NoTask EXCEPT !.kind = "other", !.pc = "handled"]]
  /\ UNCHANGED <<interrupted, model_id, tokenizer, model, mq, now, posted>>

\* ------------------------------------------------------------- microtasks
Resume(c) == mq # <<>> /\ Head(mq) = c

\* the awaited Promise.all rejected: the async call rejects.  Nothing
\* awaits or catches the promise load()/generate() returned (the listener
\* calls them without await), so nothing is posted.
AwaitRejected(c) ==
  /\ Resume(c)
  /\ PromiseAll(tokenizer, model) = "rejected"
  /\ mq' = Tail(mq)
  /\ task' = [task EXCEPT ![c].pc = "failed"]
  /\ UNCHANGED <<interrupted, model_id, tokenizer, model, ncmd, now, posted>>

\* what `await getInstance(...)` evaluates to: [tokenizer, model]
Resource == <<tokenizer, model>>

\* load() after its await: post "loading", tokenizer("a"), start the
\* warm-up model.generate({...inputs, max_new_tokens: 1})
\* mutant: "ready" is posted without awaiting the warm-up run
LoadEventsReadyEarly(c) ==
  <<Ev("loading", c, <<"Compiling shaders and warming up model...">>,
       TpsUndefined, 0),
    Ev("ready", c, <<>>, TpsUndefined, 0)>>

LoadEvents(c) ==
  <<Ev("loading", c, <<"Compiling shaders and warming up model...">>,
       TpsUndefined, 0)>>

LoadResume(c) ==
  /\ Resume(c)
  /\ task[c].kind = "load"
  /\ PromiseAll(tokenizer, model) = "resolved"
  /\ mq' = Tail(mq)
  /\ Post(c, LoadEvents(c))
  /\ task' = [task EXCEPT ![c].pc = "warmup", ![c].res = Resource]
  /\ UNCHANGED <<interrupted, model_id, tokenizer, model, ncmd, now>>

\* generate() after its await: apply_chat_template; when the result is no
\* object, return; otherwise numTokens = 0, post "start", call
\* model.generate with the streamer and stopping_criteria
\* mutant: no "start" is posted before model.generate is called
StartEventsLate(c) == <<>>

StartEvents(c) == <<Ev("start", c, <<>>, TpsUndefined, 0)>>

\* mutant: the early return reports an error
NotObjectEventsError(c) ==
  <<Ev("error", c, <<"inputs is not an object">>, TpsUndefined, 0)>>

\* if (typeof inputs !== "object") return;   (nothing is posted)
NotObjectEvents(c) == <<>>

\* mutant: generate() resets the flag after its await, before decoding
GenerateResumeReset(c) ==
  /\ Resume(c)
  /\ task[c].kind = "generate"
  /\ PromiseAll(tokenizer, model) = "resolved"
  /\ mq' = Tail(mq)
  /\ \E isObject \in BOOLEAN :
       IF isObject
       THEN /\ Post(c, StartEvents(c))
            /\ task' = [task EXCEPT ![c].pc = "enginePoll",
                                    ![c].res = Resource,
                                    ![c].numTokens = 0,
                                    ![c].startTime = <<>>]
       ELSE /\ Post(c, NotObjectEvents(c))
            /\ task' = [task EXCEPT ![c].pc = "returned",
                                    ![c].res = Resource]
  /\ interrupted' = FALSE
  /\ UNCHANGED <<model_id, tokenizer, model, ncmd, now>>

GenerateResume(c) ==
  /\ Resume(c)
  /\ task[c].kind = "generate"
  /\ PromiseAll(tokenizer, model) = "resolved"
  /\ mq' = Tail(mq)
  /\ \E isObject \in BOOLEAN :
       IF isObject
       THEN /\ Post(c, StartEvents(c))
            /\ task' = [task EXCEPT ![c].pc = "enginePoll",
                                    ![c].res = Resource,
                                    ![c].numTokens = 0,
                                    ![c].startTime = <<>>]
       ELSE /\ Post(c, NotObjectEvents(c))
            /\ task' = [task EXCEPT ![c].pc = "returned",
                                    ![c].res = Resource]
  /\ UNCHANGED <<interrupted, model_id, tokenizer, model, ncmd, now>>

\* ----------------------------------------------------------------- loader
Artifacts == {"tokenizer", "model"}

Promise(a) == IF a = "tokenizer" THEN tokenizer ELSE model

SetPromise(a, p) ==
  /\ tokenizer' = IF a = "tokenizer" THEN p ELSE tokenizer
  /\ model' = IF a = "model" THEN p ELSE model

\* the loader reports the next stage of artifact a to its progress_callback
\* (load's callback: self.postMessage(x))
LoaderProgress(a) ==
  /\ MacroTask
  /\ Promise(a).st = "pending"
  /\ Promise(a).cb # 0
  /\ Promise(a).stage < NumStages
  /\ SetPromise(a, [Promise(a) EXCEPT !.stage = @ + 1])
  /\ Post(Promise(a).cb,
          <<Ev(ProgressStatus[Promise(a).stage + 1], Promise(a).cb,
               <<a>>, TpsUndefined, 0)>>)
  /\ UNCHANGED <<interrupted, model_id, ncmd, task, mq, now>>

\* artifact a is loaded: its promise resolves; when that settles
\* Promise.all, every suspended call continues, in the order they awaited
LoaderResolve(a) ==
  /\ MacroTask
  /\ Promise(a).st = "pending"
  /\ Promise(a).cb = 0 \/ Promise(a).stage = NumStages
  /\ SetPromise(a, [Promise(a) EXCEPT !.st = "resolved"])
  /\ mq' = IF PromiseAll(tokenizer', model') # "pending"
           THEN InOrder(Awaiting) ELSE <<>>
  /\ UNCHANGED <<interrupted, model_id, ncmd, task, now, posted>>

\* artifact a fails to load: its promise rejects, and so does Promise.all
LoaderReject(a) ==
  /\ MacroTask
  /\ Promise(a).st = "pending"
  /\ SetPromise(a, [Promise(a) EXCEPT !.st = "rejected"])
  /\ mq' = InOrder(Awaiting)
  /\ UNCHANGED <<interrupted, model_id, ncmd, task, now, posted>>

\* ------------------------------------------------------- warm-up of load
\* await model.generate({...inputs, max_new_tokens: 1}) resolves
ReadyEvents(c) == <<Ev("ready", c, <<>>, TpsUndefined, 0)>>

WarmupResolve(c) ==
  /\ MacroTask
  /\ task[c].pc = "warmup"
  /\ Post(c, ReadyEvents(c))
  /\ task' = [task EXCEPT ![c].pc = "ready"]
  /\ UNCHANGED <<interrupted, model_id, tokenizer, model, ncmd, mq, now>>

\* the warm-up run throws: load() rejects, unobserved
WarmupReject(c) ==
  /\ MacroTask
  /\ task[c].pc = "warmup"
  /\ task' = [task EXCEPT ![c].pc = "failed"]
  /\ UNCHANGED <<interrupted, model_id, tokenizer, model, ncmd, mq, now,
                 posted>>

\* ------------------------------------------------- generate: the streamer
\* tokens per second: numTokens / (performance.now() - startTime) * 1000;
\* a division by 0 gives Infinity in JavaScript
Tps(n, elapsed) ==
  IF elapsed = 0 THEN TpsInfinity ELSE TpsNumber((n * 1000) \div elapsed)

\* startTime ??= performance.now()
StartTimeOf(start, t) == IF start = <<>> THEN <<t>> ELSE start

\* mutant: the comparison is numTokens++ >= 0
CbTpsAlways(n, start, t) == Tps(n + 1, t - StartTimeOf(start, t)[1])

\* let tps; if (numTokens++ > 0) { tps = ... }   (n: numTokens before ++)
CbTps(n, start, t) ==
  IF n > 0 THEN Tps(n + 1, t - StartTimeOf(start, t)[1]) ELSE TpsUndefined

\* cb(output): the one message it posts
CbEvents(c, output, t) ==
  <<Ev("update", c, output,
       CbTps(task[c].numTokens, task[c].startTime, t),
       task[c].numTokens + 1)>>

\* ----------------------------------------------------- generate: engine
\* the final message of generate(): batch_decode of everything decoded
CompleteEvents(c) ==
  <<Ev("complete", c, <<task[c].emitted>>, TpsUndefined, 0)>>

\* model.generate resolved; generate() continues to its end
Finish(c, intr) ==
  /\ Post(c, CompleteEvents(c))
  /\ task' = [task EXCEPT ![c].pc = "complete", ![c].intr = intr]

\* step boundary, stopping_criteria says stop for every row: the loop ends
EngineStop(c) ==
  /\ MacroTask
  /\ task[c].pc = "enginePoll"
  /\ EngineMustStop
  /\ Finish(c, IF task[c].intr = "pending" THEN "seen" ELSE task[c].intr)
  /\ UNCHANGED <<interrupted, model_id, tokenizer, model, ncmd, mq, now>>

\* step boundary, not stopped: the loop ends by itself (end of sequence, or
\* max_new_tokens reached)
EngineEnd(c) ==
  /\ MacroTask
  /\ task[c].pc = "enginePoll"
  /\ ~EngineMustStop
  /\ Finish(c, task[c].intr)
  /\ UNCHANGED <<interrupted, model_id, tokenizer, model, ncmd, mq, now>>

\* step boundary, not stopped: the loop goes on to decode one more fragment
EngineContinue(c) ==
  /\ MacroTask
  /\ task[c].pc = "enginePoll"
  /\ ~EngineMustStop
  /\ task[c].emitted < MaxNewTokens
  /\ task' = [task EXCEPT ![c].pc = "engineStep"]
  /\ UNCHANGED <<interrupted, model_id, tokenizer, model, ncmd, mq, now,
                 posted>>

\* the step decodes fragment <<c, i>> and the streamer calls cb with it;
\* dt: the milliseconds the step took on the performance.now() clock
Ticks == {0, 1}

EngineDecode(c, ticks) ==
  /\ MacroTask
  /\ task[c].pc = "engineStep"
  /\ \E dt \in ticks :
       /\ now + dt <= MaxNow
       /\ now' = now + dt
       /\ Post(c, CbEvents(c, <<c, task[c].emitted + 1>>, now'))
       /\ task' = [task EXCEPT
                     ![c].pc = "enginePoll",
                     ![c].emitted = @ + 1,
                     ![c].startTime = StartTimeOf(@, now'),
                     ![c].numTokens = @ + 1]
  /\ UNCHANGED <<interrupted, model_id, tokenizer, model, ncmd, mq>>

\* the step throws: model.generate rejects, and so does generate(),
\* unobserved
EngineThrow(c) ==
  /\ MacroTask
  /\ task[c].pc = "engineStep"
  /\ task' = [task EXCEPT ![c].pc = "failed"]
  /\ UNCHANGED <<interrupted, model_id, tokenizer, model, ncmd, mq, now,
                 posted>>

\* --------------------------------------------------------------- host App
\* what the user types into the textarea
Texts == {"", "hi"}

\* a chat message; content is the sequence of the pieces concatenated
UserMessage(text) == [role |-> "user", content |-> <<text>>]
AssistantMessage == [role |-> "assistant", content |-> <<>>]

Last(s) == s[Len(s)]

\* tps > 0, as JavaScript compares
TpsPositive(t) == t.kind = "Infinity" \/ (t.kind = "number" /\ t.val > 0)

\* worker.current.postMessage({type, data, config})
Command(type, data, config) ==
  [type |-> type, data |-> data, config |-> config]

\* commands posted and not yet handled, plus those handled
Sent == ncmd + Len(inbox)

CanPost == Sent < MaxCmds

\* the effect on [device, dtype, messages, modelName]: the commands it posts
UseEffectMessages(msgs, config) ==
  IF { i \in DOMAIN msgs : msgs[i].role = "user" } = {} THEN <<>>
  ELSE IF Last(msgs).role = "assistant" THEN <<>>
  ELSE <<Command("generate", msgs, config)>>

\* the handler posts cmds and ends with setMessages(msgs) on the state a
\* its other setters left; then the render and the effect (setTps(0) and
\* the generate command, when it posts one)
SetMessages(a, msgs, cmds) ==
  /\ app' = [a EXCEPT
               !.messages = msgs,
               !.tps = IF UseEffectMessages(msgs, a.config) # <<>>
                       THEN TpsNumber(0) ELSE @]
  /\ inbox' = inbox \o cmds \o UseEffectMessages(msgs, a.config)

\* the selects of modelName, dtype, device (shown before the load)
SelectConfig(config) ==
  /\ app.status = ""
  /\ app.messages = <<>>
  /\ config # app.config
  /\ app' = [app EXCEPT !.config = config]
  /\ UNCHANGED <<inbox, outbox>>
  /\ UNCHANGED workerVars

\* the "Load model" button
ClickLoad ==
  /\ app.status = ""
  /\ app.messages = <<>>
  /\ CanPost
  /\ inbox' = Append(inbox, Command("load", <<>>, app.config))
  /\ app' = [app EXCEPT !.status = "loading"]
  /\ UNCHANGED outbox
  /\ UNCHANGED workerVars

\* textarea onInput; the textarea is disabled unless status is "ready"
onInput(text) ==
  /\ app.status = "ready"
  /\ text # app.input
  /\ app' = [app EXCEPT !.input = text]
  /\ UNCHANGED <<inbox, outbox>>
  /\ UNCHANGED workerVars

\* onEnter(message)
onEnter(message) ==
  SetMessages([app EXCEPT !.tps = TpsNumber(0), !.isRunning = TRUE,
                          !.input = ""],
              Append(app.messages, UserMessage(message)), <<>>)

\* mutant: a message can be submitted while a generation runs
CanSubmitAlways == app.input # ""

\* the Enter key in the textarea, and the arrow button (shown when not
\* running): input.length > 0 && !isRunning
CanSubmit == app.input # "" /\ ~app.isRunning

Submit ==
  /\ CanSubmit
  /\ CanPost
  /\ onEnter(app.input)
  /\ UNCHANGED outbox
  /\ UNCHANGED workerVars

\* the stop button (shown while running): onInterrupt()
onInterrupt ==
  /\ app.isRunning
  /\ CanPost
  /\ inbox' = Append(inbox, Command("interrupt", <<>>, NoConfig))
  /\ UNCHANGED <<app, outbox>>
  /\ UNCHANGED workerVars

\* the Reset link
ClickReset ==
  /\ app.status = "ready"
  /\ TpsPositive(app.tps)
  /\ app.messages # <<>>
  /\ ~app.isRunning
  /\ CanPost
  /\ SetMessages(app, <<>>, <<Command("reset", <<>>, NoConfig)>>)
  /\ UNCHANGED outbox
  /\ UNCHANGED workerVars

\* mutant: the new output replaces the content
ReplaceOutput(content, output) == <<output>>

\* last.content + output
AppendOutput(content, output) == content \o <<output>>

\* case "update": the messages the updater returns
UpdateMessages(msgs, output) ==
  IF msgs = <<>> THEN <<>>
  ELSE [msgs EXCEPT ![Len(msgs)] =
          [@ EXCEPT !.content = AppendOutput(@, output)]]

\* onMessageReceived(e)
onMessageReceived(e) ==
  IF e.status = "loading"
    THEN app' = [app EXCEPT !.status = "loading"] /\ UNCHANGED inbox
  ELSE IF e.status = "ready"
    THEN app' = [app EXCEPT !.status = "ready"] /\ UNCHANGED inbox
  ELSE IF e.status = "start"
    THEN SetMessages(app, Append(app.messages, AssistantMessage), <<>>)
  ELSE IF e.status = "update"
    THEN SetMessages([app EXCEPT !.tps = e.tps, !.numTokens = e.numTokens],
                     UpdateMessages(app.messages, e.arg), <<>>)
  ELSE IF e.status = "complete"
    THEN app' = [app EXCEPT !.isRunning = FALSE] /\ UNCHANGED inbox
  ELSE IF e.status = "error"
    THEN app' = [app EXCEPT !.error = e.arg[1]] /\ UNCHANGED inbox
  \* initiate, progress, done: only the progress items (not modelled) change
  ELSE UNCHANGED <<app, inbox>>

\* the host handles the next message of the worker
HostReceive ==
  /\ outbox # <<>>
  /\ onMessageReceived(Head(outbox))
  /\ outbox' = Tail(outbox)
  /\ UNCHANGED workerVars

\* the messages this step posted (a step posts for one command)
NewPosts ==
  LET changed == { c \in Cmds : posted'[c] # posted[c] } IN
    IF changed = {} THEN <<>>
    ELSE LET c == CHOOSE x \in changed : TRUE
         IN SubSeq(posted'[c], Len(posted[c]) + 1, Len(posted'[c]))

\* self.postMessage reaches the host's listener, in order
Forward == outbox' = outbox \o NewPosts

\* the worker's listener takes the next command the host posted
WorkerReceive ==
  /\ inbox # <<>>
  /\ LET e == Head(inbox) IN
       \/ e.type = "load" /\ HandleLoad(e.config)
       \/ e.type = "generate" /\ HandleGenerate(e.config)
       \/ e.type = "interrupt" /\ HandleInterrupt
       \/ e.type = "reset" /\ HandleReset
  /\ inbox' = Tail(inbox)
  /\ Forward
  /\ UNCHANGED app

\* a step of the worker that takes no command
InWorker == Forward /\ UNCHANGED <<app, inbox>>

\* The engine throws in a decoding step and the failure is reported as one
\* `error` message, as the command router of the specification does (the
\* worker of src/ posts no message here: EngineThrow).
ErrorReported(c) ==
  /\ MacroTask
  /\ task[c].pc = "engineStep"
  /\ Post(c, <<Ev("error", c, <<"Error: engine">>, TpsUndefined, 0)>>)
  /\ task' = [task EXCEPT ![c].pc = "failed"]
  /\ UNCHANGED <<interrupted, model_id, tokenizer, model, ncmd, mq, now>>

\* ---------------------------------------------------------- specification
\* the worker without a host: no command queue, nobody listens
NoHost == UNCHANGED hostVars

Next ==
  \/ \E config \in Configs : HandleLoad(config) /\ NoHost
  \/ \E config \in Configs : HandleGenerate(config) /\ NoHost
  \/ HandleInterrupt /\ NoHost
  \/ HandleReset /\ NoHost
  \/ HandleOther /\ NoHost
  \/ \E c \in Cmds : AwaitRejected(c) /\ NoHost
  \/ \E c \in Cmds : LoadResume(c) /\ NoHost
  \/ \E c \in Cmds : GenerateResume(c) /\ NoHost
  \/ \E a \in Artifacts : LoaderProgress(a) /\ NoHost
  \/ \E a \in Artifacts : LoaderResolve(a) /\ NoHost
  \/ \E a \in Artifacts : LoaderReject(a) /\ NoHost
  \/ \E c \in Cmds : WarmupResolve(c) /\ NoHost
  \/ \E c \in Cmds : WarmupReject(c) /\ NoHost
  \/ \E c \in Cmds : EngineStop(c) /\ NoHost
  \/ \E c \in Cmds : EngineEnd(c) /\ NoHost
  \/ \E c \in Cmds : EngineContinue(c) /\ NoHost
  \/ \E c \in Cmds : EngineDecode(c, Ticks) /\ NoHost
  \/ \E c \in Cmds : EngineThrow(c) /\ NoHost

Spec == Init /\ [][Next]_vars

\* The resource pool alone: the host sends up to MaxLoadCmds load and
\* generate commands with any Config; the loader and the warm-up run succeed
\* or fail; the decoding engine is not scheduled.
NextLoad ==
  \/ ncmd < MaxLoadCmds /\ \E config \in Configs : HandleLoad(config) /\ NoHost
  \/ ncmd < MaxLoadCmds /\ \E config \in Configs : HandleGenerate(config) /\ NoHost
  \/ \E c \in Cmds : AwaitRejected(c) /\ NoHost
  \/ \E c \in Cmds : LoadResume(c) /\ NoHost
  \/ \E c \in Cmds : GenerateResume(c) /\ NoHost
  \/ \E a \in Artifacts : LoaderProgress(a) /\ NoHost
  \/ \E a \in Artifacts : LoaderResolve(a) /\ NoHost
  \/ \E a \in Artifacts : LoaderReject(a) /\ NoHost
  \/ \E c \in Cmds : WarmupResolve(c) /\ NoHost
  \/ \E c \in Cmds : WarmupReject(c) /\ NoHost

SpecLoad == Init /\ [][NextLoad]_vars

\* Generation and cancellation: the host sends generate, interrupt and reset
\* commands with one Config, the artifacts load without failure, and every
\* decoding step falls into the same millisecond of the clock.
NextGen ==
  \/ HandleGenerate(BaseConfig) /\ NoHost
  \/ HandleInterrupt /\ NoHost
  \/ HandleReset /\ NoHost
  \/ \E c \in Cmds : GenerateResume(c) /\ NoHost
  \/ \E a \in Artifacts : LoaderResolve(a) /\ NoHost
  \/ \E c \in Cmds : EngineStop(c) /\ NoHost
  \/ \E c \in Cmds : EngineEnd(c) /\ NoHost
  \/ \E c \in Cmds : EngineContinue(c) /\ NoHost
  \/ \E c \in Cmds : EngineDecode(c, {0}) /\ NoHost
  \/ \E c \in Cmds : EngineThrow(c) /\ NoHost

SpecGen == Init /\ [][NextGen]_vars

\* The streamer callback: the host sends up to MaxGens generate commands
\* with one Config, nothing fails, and the clock advances as it likes.
NextStream ==
  \/ ncmd < MaxGens /\ HandleGenerate(BaseConfig) /\ NoHost
  \/ \E c \in Cmds : GenerateResume(c) /\ NoHost
  \/ \E a \in Artifacts : LoaderResolve(a) /\ NoHost
  \/ \E c \in Cmds : EngineEnd(c) /\ NoHost
  \/ \E c \in Cmds : EngineContinue(c) /\ NoHost
  \/ \E c \in Cmds : EngineDecode(c, Ticks) /\ NoHost

SpecStream == Init /\ [][NextStream]_vars

\* The message listener: the host sends commands of every type, known or
\* not, with one Config; nothing fails, and a generation ends at its first
\* step boundary.
NextRouter ==
  \/ HandleLoad(BaseConfig) /\ NoHost
  \/ HandleGenerate(BaseConfig) /\ NoHost
  \/ HandleInterrupt /\ NoHost
  \/ HandleReset /\ NoHost
  \/ HandleOther /\ NoHost
  \/ \E c \in Cmds : LoadResume(c) /\ NoHost
  \/ \E c \in Cmds : GenerateResume(c) /\ NoHost
  \/ \E a \in Artifacts : LoaderProgress(a) /\ NoHost
  \/ \E a \in Artifacts : LoaderResolve(a) /\ NoHost
  \/ \E c \in Cmds : WarmupResolve(c) /\ NoHost
  \/ \E c \in Cmds : EngineStop(c) /\ NoHost
  \/ \E c \in Cmds : EngineEnd(c) /\ NoHost

SpecRouter == Init /\ [][NextRouter]_vars

\* Host and worker together: the App component is the only source of
\* commands, the user acts whenever the interface allows it, the loader,
\* the warm-up run and the engine succeed or fail as they like, and every
\* decoding step falls into the same millisecond of the clock.
NextApp ==
  \/ \E config \in Configs : SelectConfig(config)
  \/ ClickLoad
  \/ \E text \in Texts : onInput(text)
  \/ Submit
  \/ onInterrupt
  \/ ClickReset
  \/ HostReceive
  \/ WorkerReceive
  \/ \E c \in Cmds : AwaitRejected(c) /\ InWorker
  \/ \E c \in Cmds : LoadResume(c) /\ InWorker
  \/ \E c \in Cmds : GenerateResume(c) /\ InWorker
  \/ \E a \in Artifacts : LoaderProgress(a) /\ InWorker
  \/ \E a \in Artifacts : LoaderResolve(a) /\ InWorker
  \/ \E a \in Artifacts : LoaderReject(a) /\ InWorker
  \/ \E c \in Cmds : WarmupResolve(c) /\ InWorker
  \/ \E c \in Cmds : WarmupReject(c) /\ InWorker
  \/ \E c \in Cmds : EngineStop(c) /\ InWorker
  \/ \E c \in Cmds : EngineEnd(c) /\ InWorker
  \/ \E c \in Cmds : EngineContinue(c) /\ InWorker
  \/ \E c \in Cmds : EngineDecode(c, {0}) /\ InWorker
  \/ \E c \in Cmds : EngineThrow(c) /\ InWorker

SpecApp == Init /\ [][NextApp]_vars

\* Host and worker together, with a worker that reports a failure of the
\* decoding engine as an `error` message.
NextAppErr ==
  \/ NextApp
  \/ \E c \in Cmds : ErrorReported(c) /\ InWorker

SpecAppErr == Init /\ [][NextAppErr]_vars

\* ==================================================================
\* Properties
\* ==================================================================
Statuses(c) == [i \in DOMAIN posted[c] |-> posted[c][i].status]

Count(c, status) ==
  Cardinality({ i \in DOMAIN posted[c] : posted[c][i].status = status })

Generates == { c \in Cmds : task[c].kind = "generate" }
Loads == { c \in Cmds : task[c].kind = "load" }

\* the async call of command c is over
Ended(c) == task[c].pc \in {"ready", "complete", "returned", "failed"}

\* C1: every load or generate command whose processing failed (the resource
\* acquisition rejected, the warm-up run threw, or the engine threw while
\* decoding) has posted exactly one `error` message.
C1_FailureReportedOnce ==
  \A c \in Cmds : task[c].pc = "failed" => Count(c, "error") = 1

\* C2: a generate command whose processing is over has posted a `complete`
\* or an `error` message; none ends with neither.
C2_GenerateEndsWithCompleteOrError ==
  \A c \in Generates :
    Ended(c) => Count(c, "complete") + Count(c, "error") >= 1

\* C3: a generation during whose decoding an interrupt command was handled
\* ends with `complete`: once it is over it has posted `complete` and no
\* `error`, and its last message is `complete`.
C3_InterruptedEndsWithComplete ==
  \A c \in Generates :
    (task[c].intr # "no" /\ Ended(c)) =>
      /\ Count(c, "complete") = 1
      /\ Count(c, "error") = 0
      /\ posted[c][Len(posted[c])].status = "complete"

\* updates posted since the interrupt recorded in task[c] was handled
After(c) == task[c].numTokens - task[c].n0

\* <<"start", "update" * n, "complete">>
StartUpdatesComplete(n) ==
  [i \in 1..(n + 2) |-> IF i = 1 THEN "start"
                        ELSE IF i = n + 2 THEN "complete" ELSE "update"]

\* C4 as stated: once an interrupt command has been handled during a
\* generation, at most one further decode step runs (at most one further
\* `update`), and none when the loop was at a step boundary, whatever is
\* handled afterwards.
C4_StopsAtNextBoundary ==
  \A c \in Generates :
    task[c].intr # "no" =>
      /\ After(c) <= 1
      /\ task[c].at = "enginePoll" => After(c) = 0

\* C4 as amended: the same, provided no reset or generate command handled
\* before the loop's next poll has cleared the flag.  The flag is then still
\* set at the poll, no new step begins, at most one further `update` is
\* posted (none from a step boundary), and a loop that polled the flag has
\* posted start, its updates, then complete.
C4_StopsAtNextBoundaryUnlessCleared ==
  \A c \in Generates :
    task[c].intr \in {"pending", "seen"} =>
      /\ After(c) <= 1
      /\ task[c].at = "enginePoll" => After(c) = 0
      /\ (task[c].intr = "pending" /\ Decoding(c)) => EngineMustStop
      /\ (task[c].intr = "pending" /\ task[c].pc = "engineStep") =>
           (task[c].at = "engineStep" /\ After(c) = 0)
      /\ task[c].intr = "seen" =>
           /\ task[c].pc = "complete"
           /\ Statuses(c) = StartUpdatesComplete(task[c].numTokens)

\* a generation interrupted at the step boundary after fragment 1, which
\* could have decoded more, has ended with 1 update and complete
C4_Witness ==
  \E c \in Generates :
    /\ task[c].intr = "seen"
    /\ task[c].at = "enginePoll"
    /\ task[c].n0 = 1
    /\ task[c].n0 < MaxNewTokens
    /\ Statuses(c) = <<"start", "update", "complete">>

\* C5: the messages of one generate command are one `start`, first; then
\* one `update` per decoded fragment, in decoding order; then, once decoding
\* has succeeded, one `complete`, last.  No `update` precedes `start` or
\* follows `complete`.
C5_StartUpdatesComplete ==
  \A c \in Generates :
    LET S == Statuses(c) IN
      /\ \A i \in DOMAIN S :
           /\ S[i] \in {"start", "update", "complete"}
           /\ S[i] = "start" <=> i = 1
           /\ S[i] = "complete" => (i = Len(S) /\ task[c].pc = "complete")
           /\ S[i] = "update" => posted[c][i].arg = <<c, i - 1>>
      /\ Count(c, "update") = task[c].emitted
      /\ task[c].pc = "complete" =>
           S = StartUpdatesComplete(task[c].emitted)

\* a generation that decoded MaxNewTokens fragments, uninterrupted, is over
C5_Witness ==
  \E c \in Generates :
    /\ task[c].pc = "complete"
    /\ task[c].intr = "no"
    /\ task[c].emitted = MaxNewTokens
    /\ Count(c, "update") >= 2

\* the updates of command c, in the order posted
RECURSIVE Updates(_, _)
Updates(c, n) ==
  IF n = 0 THEN <<>>
  ELSE IF posted[c][n].status = "update"
       THEN Append(Updates(c, n - 1), posted[c][n])
       ELSE Updates(c, n - 1)

\* C6: within each generation the i-th `update` carries numTokens = i, and
\* its tps is undefined exactly when i = 1; this holds anew for every
\* generate command.
C6_UpdateCounters ==
  \A c \in Generates :
    LET U == Updates(c, Len(posted[c])) IN
      \A i \in DOMAIN U :
        /\ U[i].numTokens = i
        /\ U[i].tps.kind = "undefined" <=> i = 1

\* two generate commands with at least two updates each, one of them with a
\* measured tps and one with an elapsed time of 0 ms
C6_Witness ==
  \E c, d \in Generates :
    /\ c # d
    /\ Count(c, "update") >= 2
    /\ Count(d, "update") >= 2
    /\ \E i \in DOMAIN posted[c] : posted[c][i].tps.kind = "number"
    /\ \E i \in DOMAIN posted[d] : posted[d][i].tps.kind = "Infinity"

IsProgress(status) == \E k \in 1..NumStages : ProgressStatus[k] = status

\* the statuses of the progress messages of artifact a posted for command c
RECURSIVE ProgressOf(_, _, _)
ProgressOf(c, a, n) ==
  IF n = 0 THEN <<>>
  ELSE IF IsProgress(posted[c][n].status) /\ posted[c][n].arg = <<a>>
       THEN Append(ProgressOf(c, a, n - 1), posted[c][n].status)
       ELSE ProgressOf(c, a, n - 1)

\* progress events the loader of artifact a has handed to command c's
\* callback
Produced(c, a) == IF Promise(a).cb = c THEN Promise(a).stage ELSE 0

\* C7: the messages of one load command start with `loading`; each
\* artifact's progress messages are exactly those its loader produced, in
\* that order; once the resource has resolved for the command the messages
\* are loading, the progress messages, loading (compiling), and then, last,
\* `ready`; `ready` is posted only when both promises have resolved and the
\* warm-up run is over.
C7_LoadOrder ==
  \A c \in Loads :
    LET S == Statuses(c)
        n == Len(S)
    IN
      /\ S[1] = "loading"
      /\ \A a \in Artifacts :
           ProgressOf(c, a, n) = SubSeq(ProgressStatus, 1, Produced(c, a))
      /\ \A i \in DOMAIN S :
           S[i] = "ready" =>
             /\ i = n
             /\ task[c].pc = "ready"
             /\ tokenizer.st = "resolved" /\ model.st = "resolved"
      /\ task[c].pc \in {"warmup", "ready"} =>
           LET j == IF task[c].pc = "ready" THEN n - 1 ELSE n IN
             /\ j >= 2
             /\ S[j] = "loading"
             /\ posted[c][j].arg # posted[c][1].arg
             /\ \A i \in 2..(j - 1) : IsProgress(S[i])
             /\ task[c].pc = "ready" => S[n] = "ready"

\* the first load reported all progress events of both artifacts and is ready
C7_Witness ==
  \E c \in Loads :
    /\ task[c].pc = "ready"
    /\ Len(posted[c]) = 2 * NumStages + 3
    /\ \A a \in Artifacts : Produced(c, a) = NumStages

\* the commands that call getInstance
Acquirers == Loads \cup Generates

\* res is the (tokenizer, model) pair loaded for config
LoadedFor(res, config) ==
  /\ res[1].id = config.modelName
  /\ res[2].id = config.modelName
  /\ res[2].dtype = config.dtype
  /\ res[2].device = config.device

\* C8: the resource a load or generate command obtains from getInstance is
\* the one loaded for the command's own Config.
C8_ResourceMatchesConfig ==
  \A c \in Acquirers :
    task[c].res # <<>> => LoadedFor(task[c].res, task[c].config)

\* C9: a failed acquisition is not cached: getInstance never hands a load
\* command a promise that has already rejected (so a load that follows a
\* failed one starts afresh and can reach `ready`).
C9_FailureNotCached ==
  \A c \in Loads : task[c].acq # "rejected"

\* how often the progress message (status, artifact a) was posted, over all
\* commands
Delivered(status, a) ==
  LET At(c) == { i \in DOMAIN posted[c] :
                   posted[c][i].status = status /\ posted[c][i].arg = <<a>> }
      RECURSIVE Sum(_)
      Sum(n) == IF n = 0 THEN 0 ELSE Cardinality(At(n)) + Sum(n - 1)
  IN Sum(MaxCmds)

\* C10: when a second getInstance call with the same Config is made while
\* the load the first call awaits is in flight, there is one tokenizer load
\* and one model load, both calls get the same pair, and every progress
\* event the loader produced has been posted exactly once; when the first
\* call is the first of the run, the load is the one it started.
C10_ConcurrentAcquireShared ==
  \A c, d \in Acquirers :
    ( /\ c < d
      /\ task[c].config = task[d].config
      /\ task[d].acq = "pending" ) =>
        /\ tokenizer.n = 1 /\ model.n = 1
        /\ (\A e \in Acquirers : c <= e) =>
             /\ tokenizer.cb = (IF c \in Loads THEN c ELSE 0)
             /\ model.cb = tokenizer.cb
        /\ (task[c].res # <<>> /\ task[d].res # <<>>) =>
             task[c].res = task[d].res
        /\ \A a \in Artifacts : \A k \in 1..NumStages :
             Delivered(ProgressStatus[k], a) =
               (IF Promise(a).stage >= k THEN 1 ELSE 0)

\* two loads with the same Config, the second handled while the first is in
\* flight, have both obtained the pair after all progress events
C10_Witness ==
  \E c, d \in Loads :
    /\ c < d
    /\ task[c].config = task[d].config
    /\ task[d].acq = "pending"
    /\ task[c].res # <<>> /\ task[d].res # <<>>
    /\ \A a \in Artifacts : Promise(a).stage = NumStages

\* C11: a getInstance call made when the acquisition for the call's Config
\* has already resolved is answered from the cache: it returns the resolved
\* pair (the call continues in the next microtask), no from_pretrained load
\* is started for it, its progress callback is registered nowhere and no
\* initiate, progress or done message is posted for it.
C11_ResolvedAcquireFromCache ==
  \A c \in Acquirers :
    (task[c].hit /\ LoadedFor(Resource, task[c].config)) =>
      /\ task[c].acq = "resolved"
      /\ tokenizer.n = 1 /\ model.n = 1
      /\ tokenizer.st = "resolved" /\ model.st = "resolved"
      /\ tokenizer.cb # c /\ model.cb # c
      /\ \A i \in DOMAIN posted[c] : ~IsProgress(posted[c][i].status)
      /\ task[c].pc = "awaitInstance" => (mq # <<>> /\ Head(mq) = c)
      /\ task[c].res # <<>> => task[c].res = Resource

\* a load handled after the acquisition for its Config resolved is ready,
\* with loading, loading (compiling), ready as its only messages
C11_Witness ==
  \E c \in Loads :
    /\ task[c].hit
    /\ LoadedFor(Resource, task[c].config)
    /\ task[c].pc = "ready"
    /\ Statuses(c) = <<"loading", "loading", "ready">>

\* C12: handling a generate command resets the flag: while a generate
\* command is the last command handled the flag is false, and whenever the
\* flag is true an interrupt command was handled after every generate
\* command handled so far.  So a decoding loop that finds the flag set was
\* interrupted after its own generate command, never before it.
C12_GenerateResetsFlag ==
  /\ (ncmd > 0 /\ task[ncmd].kind = "generate") => ~interrupted
  /\ interrupted =>
       \E i \in Cmds :
         /\ task[i].kind = "interrupt"
         /\ \A g \in Generates : g < i

\* an interrupt was handled, then a generate command, and that generation
\* decoded all its fragments and completed
C12_Witness ==
  \E i, g \in Cmds :
    /\ i < g
    /\ task[i].kind = "interrupt"
    /\ task[g].kind = "generate"
    /\ ncmd = g
    /\ task[g].pc = "complete"
    /\ task[g].emitted = MaxNewTokens

\* C13: at most one generation is between its `start` message and its end
\* (complete or failure) at any time.
C13_AtMostOneGenerating ==
  Cardinality({ c \in Generates : Decoding(c) }) <= 1

\* the program state of one async call (its history fields left out)
Locals(t) ==
  [kind |-> t.kind, pc |-> t.pc, config |-> t.config, res |-> t.res,
   numTokens |-> t.numTokens, startTime |-> t.startTime,
   emitted |-> t.emitted]

\* the step handles a command of the given type
Handles(type) == ncmd' = ncmd + 1 /\ task'[ncmd'].kind = type

\* everything but the flag and the handled command's own record is unchanged
OnlyFlagMayChange ==
  /\ UNCHANGED <<model_id, tokenizer, model, mq, now, posted>>
  /\ \A c \in Cmds \ {ncmd'} : Locals(task'[c]) = Locals(task[c])

\* C14: the step that handles an interrupt command sets the flag to true
\* and does nothing else: it posts no message, leaves the promise cache,
\* model_id, the microtask queue and the clock alone, and changes no local
\* of any running call (its counters, its position).
C14_InterruptOnlySetsFlag ==
  [][Handles("interrupt") => (interrupted' = TRUE /\ OnlyFlagMayChange)]_vars

\* an interrupt was handled while a generation with one fragment decoded
\* was at a step boundary, and the flag is still set
C14_Witness ==
  \E i \in Cmds : \E g \in Generates :
    /\ task[i].kind = "interrupt"
    /\ g < i
    /\ task[g].intr = "pending"
    /\ task[g].n0 = 1
    /\ interrupted

\* C15: a generate call that returned because apply_chat_template gave no
\* object has posted no message at all (no start, update, complete or
\* error) and the engine never ran for it: nothing decoded, no token
\* counted, and it is not at the engine.
C15_NotObjectSilent ==
  \A c \in Generates :
    task[c].pc = "returned" =>
      /\ posted[c] = <<>>
      /\ task[c].emitted = 0
      /\ task[c].numTokens = 0
      /\ task[c].startTime = <<>>
      /\ ~Decoding(c)

\* a generate call returned early after the pair resolved, while another
\* generate command of the same run produced its messages
C15_Witness ==
  \E c, d \in Generates :
    /\ task[c].pc = "returned"
    /\ task[c].res # <<>>
    /\ task[d].pc = "complete"
    /\ task[d].emitted >= 1

\* C16: a command whose type is none of load, generate, interrupt, reset
\* has posted exactly one `error` message.
C16_UnknownTypeReported ==
  \A c \in Cmds : task[c].kind = "other" => Count(c, "error") = 1

\* C20: the step that handles a reset command ends with the flag false
\* whatever it was, and changes nothing but the flag; handled when the flag
\* is already false (as for the second of two resets in a row) it changes
\* nothing at all, so two resets leave the state one reset leaves.  While a
\* reset is the last command handled the flag is false.
C20_ResetIdempotent ==
  /\ []((ncmd > 0 /\ task[ncmd].kind = "reset") => ~interrupted)
  /\ [][Handles("reset") =>
          /\ interrupted' = FALSE
          /\ OnlyFlagMayChange
          /\ ~interrupted =>
               /\ UNCHANGED interrupted
               /\ \A c \in Cmds \ {ncmd'} : task'[c] = task[c]]_vars

\* interrupt, reset, reset were handled one after the other
C20_Witness ==
  \E c \in 1..(MaxCmds - 2) :
    /\ task[c].kind = "interrupt"
    /\ task[c + 1].kind = "reset"
    /\ task[c + 2].kind = "reset"
    /\ ~interrupted

\* the messages of command c the host has handled
Received(c) ==
  LET queued == Cardinality({ i \in DOMAIN outbox : outbox[i].cmd = c })
  IN SubSeq(posted[c], 1, Len(posted[c]) - queued)

HasReceived(c, status) ==
  \E i \in DOMAIN Received(c) : Received(c)[i].status = status

\* the outputs of the updates among evs, in order
RECURSIVE Outputs(_)
Outputs(evs) ==
  IF evs = <<>> THEN <<>>
  ELSE IF Head(evs).status = "update"
       THEN <<Head(evs).arg>> \o Outputs(Tail(evs))
       ELSE Outputs(Tail(evs))

Queued(type) == \E i \in DOMAIN inbox : inbox[i].type = type

\* g is the generate command the host posted last, and the host has not
\* cleared the history since
Current(g) ==
  /\ g \in Generates
  /\ \A h \in Generates : h <= g
  /\ ~Queued("generate") /\ ~Queued("reset")
  /\ \A c \in Cmds : task[c].kind = "reset" => c < g

IsPrefix(s, t) == Len(s) <= Len(t) /\ SubSeq(t, 1, Len(s)) = s

\* C17: once the host has handled `start` of its current generate command
\* and k of its updates, the last message of the history is an assistant
\* message whose content is the fragments 1..k of that generation, one
\* piece per update, in the order the engine decoded and the worker posted
\* them; and as long as no message is added or removed, the last message's
\* content only grows and the earlier messages stay as they are.
C17_HostConcatenatesUpdates ==
  /\ [](\A g \in Cmds :
          (Current(g) /\ HasReceived(g, "start")) =>
            /\ app.messages # <<>>
            /\ Last(app.messages).role = "assistant"
            /\ Last(app.messages).content = Outputs(Received(g))
            /\ Last(app.messages).content =
                 [i \in 1..Len(Outputs(Received(g))) |-> <<g, i>>])
  /\ [][(app.messages # <<>> /\ Len(app'.messages) = Len(app.messages)) =>
          /\ IsPrefix(Last(app.messages).content,
                      Last(app'.messages).content)
          /\ \A i \in 1..(Len(app.messages) - 1) :
               app'.messages[i] = app.messages[i]]_vars

\* the host has handled start, MaxNewTokens updates and complete of its
\* generate command; the assistant message holds all the fragments
C17_Witness ==
  \E g \in Cmds :
    /\ Current(g)
    /\ HasReceived(g, "complete")
    /\ ~app.isRunning
    /\ Len(app.messages) = 2
    /\ Len(Last(app.messages).content) = MaxNewTokens
    /\ MaxNewTokens >= 2

\* the worker has nothing left to do and nothing is in transit
Quiescent ==
  /\ inbox = <<>> /\ outbox = <<>> /\ mq = <<>>
  /\ \A c \in Acquirers : Ended(c)

Posts(type) ==
  Len(inbox') = Len(inbox) + 1 /\ Last(inbox').type = type

\* the host has handled the `ready` message of its load command
ReadyReceived ==
  /\ app.status = "ready"
  /\ \E l \in Loads : HasReceived(l, "ready")

\* every generate command posted so far has been handled by the worker and
\* the host has handled its `complete` message
AllGeneratesComplete ==
  /\ ~Queued("generate")
  /\ \A g \in Generates : HasReceived(g, "complete")

\* C19: with the App as the only source of commands, at most one generate
\* call is under way in the worker at any time; a step that posts a
\* generate command is taken only after `ready` was handled, and a step
\* that posts a generate or a reset command only when every generate
\* command posted before has produced its `complete` message.
C19_HostSerializesGenerations ==
  /\ [](Cardinality({ g \in Generates : ~Ended(g) }) <= 1)
  /\ [][/\ Posts("generate") => (ReadyReceived /\ AllGeneratesComplete)
        /\ Posts("reset") => AllGeneratesComplete]_vars

\* a second generate command was posted and handled after the first
\* generation completed, and is decoding
C19_Witness ==
  \E g, h \in Generates :
    /\ g < h
    /\ task[g].pc = "complete"
    /\ Decoding(h)
    /\ task[h].emitted >= 1

\* a generation is decoding with an interrupt handled and not yet polled
InterruptPending ==
  \E g \in Generates : Decoding(g) /\ task[g].intr = "pending"

\* C21 as stated: while the interrupt of an active generation is pending
\* (handled, not yet observed by the loop) no step clears the flag,
\* whatever command is handled.
C21_PendingInterruptKept ==
  [][InterruptPending => interrupted']_vars

\* C21 as amended: the flag, once set, is cleared only by a step that
\* handles a generate or a reset command; no interrupt command, no
\* continuation and no engine step clears it.  So with no such command
\* handled, the flag is still set while the interrupt is pending, and a loop
\* that observed it has posted `complete`.
C21_OnlyGenerateOrResetClears ==
  /\ [][(interrupted /\ ~interrupted') =>
          (Handles("generate") \/ Handles("reset"))]_vars
  /\ [](\A g \in Generates :
          /\ task[g].intr = "pending" => interrupted
          /\ task[g].intr = "seen" =>
               (task[g].pc = "complete" /\ Count(g, "complete") = 1))

\* an interrupt handled in the middle of a decoding step was observed at the
\* next boundary, the generation has completed and the flag is still set
C21_Witness ==
  \E g \in Generates :
    /\ task[g].intr = "seen"
    /\ task[g].at = "engineStep"
    /\ task[g].pc = "complete"
    /\ interrupted

\* C22: an interrupt handled while a generate call awaits the pair is not
\* lost.  As long as no later generate or reset command is handled, the
\* flag stays set; the call decodes nothing: at its first poll the loop
\* must stop, no decoding step begins, and once the generation is over its
\* messages are `start`, `complete` (none at all when the call returned
\* early because the encoded input was no object).
C22_EarlyInterruptKept ==
  \A g \in Generates :
    task[g].early = "pending" =>
      /\ interrupted
      /\ task[g].pc \in {"awaitInstance", "enginePoll", "complete",
                          "returned"}
      /\ task[g].emitted = 0
      /\ task[g].pc = "enginePoll" =>
           (EngineMustStop /\ Statuses(g) = <<"start">>)
      /\ task[g].pc = "complete" => Statuses(g) = <<"start", "complete">>
      /\ task[g].pc = "returned" => posted[g] = <<>>

\* generate, interrupt while the artifacts load, then the loop polled the
\* flag at its first boundary: start, complete
C22_Witness ==
  \E g \in Generates :
    /\ task[g].early = "pending"
    /\ task[g].pc = "complete"
    /\ Statuses(g) = <<"start", "complete">>
    /\ MaxNewTokens >= 1

====
